---- MODULE Spec2Model ----
(***************************************************************************)
(* A model of qianka.sqlalchemy.QKSQLAlchemy: the engine registry, the     *)
(* session registry, the metadata reflector and the shard-aware default    *)
(* session, as threads calling into one shared QKSQLAlchemy object.        *)
(*                                                                         *)
(* Python's None is the record Null.  An Engine, a scoped session, a Table *)
(* and a mapped class are records that carry their identity as (key, ser): *)
(* ser counts the objects constructed for that key, so two constructions   *)
(* for one key give two different objects.                                 *)
(***************************************************************************)
EXTENDS Naturals, Sequences, FiniteSets, TLC

VARIABLES
    _config,        \* self._config
    _engines,       \* self._engines: bind_key -> Engine
    _sessions,      \* self._sessions: the dict in insertion order, <<[key, val], ...>>
    _tables,        \* self._tables: table_name -> Table
    _models,        \* self._models: table_name -> mapped class
    _engine_lock,   \* self._engine_lock: its holder, or NoThread
    _session_lock,  \* self._session_lock
    _reflect_lock,  \* self._reflect_lock
    query_chooser,  \* self.query_chooser
    registry,       \* the scoped sessions' registries: <<bind_key, thread>> -> instance
    made,           \* history: the objects constructed so far, per kind and key,
                    \* what the first successful reflect_table and
                    \* reflect_model of each table name returned, and the
                    \* bind keys get_engine has returned None for
    pc,             \* each thread's position
    call,           \* each thread's current top-level call
    local,          \* each thread's local variables
    ret,            \* history: the outcome of the call that ended last
    budget          \* the calls and the configuration steps still to come

vars == <<_config, _engines, _sessions, _tables, _models, _engine_lock,
          _session_lock, _reflect_lock, query_chooser, registry, made,
          pc, call, local, ret, budget>>

-----------------------------------------------------------------------------
(* Bounds *)

\* The threads that call into the shared object
NThreads == 2
\* The calls and the configuration steps of a run of Spec
MaxCalls == 2
MaxConfigure == 2
\* The calls of a run of SpecEngine, SpecSession and SpecReflect, and the
\* configuration steps of a run of SpecReflect
MaxEngineCalls == 4
MaxSessionCalls == 4
MaxReflectCalls == 3
MaxReflectConfigure == 1
\* The calls of a run of SpecExtract, and the longest list of an IN
MaxExtractCalls == 1
MaxListLen == 2
\* The calls and the configuration steps of a run of SpecLocks
MaxLockCalls == 3
MaxLockConfigure == 1
\* The calls and the configuration steps of a run of SpecRaise
MaxRaiseCalls == 3
MaxRaiseConfigure == 2
\* The calls and the configuration steps of a run of SpecBind
MaxBindCalls == 3
MaxBindConfigure == 1

-----------------------------------------------------------------------------
(* Values *)

Null == [nil |-> TRUE]
NoThread == 0
Threads == 1..NThreads

\* bind_key None (the default bind)
Default == "None"
\* A str object used as a shard id: its characters, and which object it is.
\* Two records are equal when they are the same object (Python's `is`); two
\* different objects may hold the same characters (Python's `==`).
Str(chars) == [chars |-> chars, obj |-> "other"]
\* _DEFAULT_SHARD_ID = ''
_DEFAULT_SHARD_ID == [chars |-> "", obj |-> "_DEFAULT_SHARD_ID"]
\* The shard ids callers and custom choosers hand to a sharded session: the
\* sentinel itself, another empty string, and the name of a bind
ShardIdArgs == {_DEFAULT_SHARD_ID, Str(""), Str("s1")}
NamedKeys == {"s1"}
BindKeys == {Default} \cup NamedKeys
TableNames == {"t", "np"}

\* A URI is a string; "None" is an unset URI and create_engine rejects "bad".
NoURI == "None"

\* What each database holds: table name -> whether it has a primary key.
Schema(uri) ==
    IF uri = "u0" THEN [t |-> TRUE, np |-> FALSE]
    ELSE IF uri = "u1" THEN [t |-> TRUE]
    ELSE Null

InitConfig ==
    [SQLALCHEMY_DATABASE_URI |-> NoURI,
     SQLALCHEMY_BINDS        |-> Null,
     SQLALCHEMY_ENABLE_SHARD |-> FALSE,
     SQLALCHEMY_ENABLE_POOL  |-> FALSE]

\* The dicts callers pass to configure(): in runs of Spec,
Updates ==
    { [SQLALCHEMY_DATABASE_URI |-> "u0", SQLALCHEMY_BINDS |-> [s1 |-> "u1"],
       SQLALCHEMY_ENABLE_SHARD |-> TRUE],
      [SQLALCHEMY_DATABASE_URI |-> "u1", SQLALCHEMY_ENABLE_POOL |-> TRUE] }
\* of SpecEngine,
EngineUpdates ==
    { [SQLALCHEMY_DATABASE_URI |-> "u0"],
      [SQLALCHEMY_DATABASE_URI |-> "bad"],
      [SQLALCHEMY_DATABASE_URI |-> NoURI],
      [SQLALCHEMY_BINDS |-> [s1 |-> "u1"]],
      [SQLALCHEMY_BINDS |-> [s2 |-> "u0"]],
      [SQLALCHEMY_BINDS |-> [s1 |-> NoURI]],
      [SQLALCHEMY_ENABLE_POOL |-> TRUE] }
\* of SpecSession,
SessionUpdates ==
    { [SQLALCHEMY_DATABASE_URI |-> "u0"],
      [SQLALCHEMY_ENABLE_SHARD |-> TRUE, SQLALCHEMY_BINDS |-> [s1 |-> "u1"]],
      [SQLALCHEMY_ENABLE_SHARD |-> FALSE] }
\* and of SpecReflect
ReflectUpdates ==
    { [SQLALCHEMY_DATABASE_URI |-> "u0"],
      [SQLALCHEMY_DATABASE_URI |-> "u0", SQLALCHEMY_BINDS |-> [s1 |-> "u1"]] }

\* of SpecLocks,
LockUpdates == { [SQLALCHEMY_DATABASE_URI |-> "u0"] }
\* of SpecRaise,
RaiseUpdates ==
    { [SQLALCHEMY_DATABASE_URI |-> "bad"],
      [SQLALCHEMY_DATABASE_URI |-> "u0"],
      [SQLALCHEMY_BINDS |-> [s2 |-> "u0"]] }
\* and of SpecBind
BindUpdates ==
    { [SQLALCHEMY_DATABASE_URI |-> "u0", SQLALCHEMY_ENABLE_SHARD |-> TRUE],
      [SQLALCHEMY_DATABASE_URI |-> "u0", SQLALCHEMY_ENABLE_SHARD |-> TRUE,
       SQLALCHEMY_BINDS |-> [s1 |-> "u1"]],
      [SQLALCHEMY_DATABASE_URI |-> "u0"] }

\* The functions callers assign to db.query_chooser
Choosers == {"default", "empty", "named"}

\* A thread's locals before a call sets them
NoLocal ==
    [bind_key |-> Default, uri |-> NoURI, engine |-> Null, table |-> Null,
     ids |-> << >>, targets |-> {}, pos |-> 0, used |-> 0]
NoCall == [op |-> "none"]
NoRet == [kind |-> "none"]

-----------------------------------------------------------------------------
(* dict helpers *)

Has(d, k) == k \in DOMAIN d
Put(d, k, v) == [x \in DOMAIN d \cup {k} |-> IF x = k THEN v ELSE d[x]]

KeysIn(S) == {S[i].key : i \in 1..Len(S)}
ValIn(S, k) == S[CHOOSE i \in 1..Len(S) : S[i].key = k].val
SessKeys == KeysIn(_sessions)
SessGet(k) == (CHOOSE i \in 1..Len(_sessions) : _sessions[i].key = k)
SessVal(k) == ValIn(_sessions, k)
SessPut(k, v) ==
    IF k \in SessKeys
    THEN [_sessions EXCEPT ![SessGet(k)] = [key |-> k, val |-> v]]
    ELSE Append(_sessions, [key |-> k, val |-> v])

Count(kind, k) == made[kind][k]
Bump(kind, k) == [made EXCEPT ![kind][k] = @ + 1]
NoteFirst(m, kind, n, v) ==
    IF m[kind][n] = Null THEN [m EXCEPT ![kind][n] = v] ELSE m

-----------------------------------------------------------------------------
\* The object after __init__, with the calls and configuration steps to come
InitWith(calls, configure) ==
    /\ _config = InitConfig
    /\ _engines = << >>
    /\ _sessions = << >>
    /\ _tables = << >>
    /\ _models = << >>
    /\ _engine_lock = NoThread
    /\ _session_lock = NoThread
    /\ _reflect_lock = NoThread
    /\ query_chooser = "default"
    /\ registry = [k \in BindKeys |-> [t \in Threads |-> Null]]
    /\ made = [engine  |-> [k \in BindKeys |-> 0],
               session |-> [k \in BindKeys |-> 0],
               reflect |-> [n \in TableNames |-> 0],
               model   |-> [n \in TableNames |-> 0],
               inst    |-> [k \in BindKeys |-> 0],
               first_table |-> [n \in TableNames |-> Null],
               first_model |-> [n \in TableNames |-> Null],
               null_engine |-> {}]
    /\ pc = [t \in Threads |-> "idle"]
    /\ call = [t \in Threads |-> NoCall]
    /\ local = [t \in Threads |-> NoLocal]
    /\ ret = NoRet
    /\ budget = [calls |-> calls, configure |-> configure]

Init == InitWith(MaxCalls, MaxConfigure)

-----------------------------------------------------------------------------
(* Calls, returns and exceptions *)

\* Thread t may call a method now
Idle(t) == pc[t] = "idle" /\ budget.calls > 0

Called == [budget EXCEPT !.calls = @ - 1]

\* Thread t goes on in call c at position p with locals loc
Go(t, c, p, loc) ==
    /\ pc' = [pc EXCEPT ![t] = p]
    /\ call' = [call EXCEPT ![t] = c]
    /\ local' = [local EXCEPT ![t] = loc]
    /\ ret' = IF pc[t] = "idle" THEN NoRet ELSE ret

\* Call c of thread t ends: kind is "val" (a return) or "err" (an exception)
Done(t, c, kind, val) ==
    /\ pc' = [pc EXCEPT ![t] = "idle"]
    /\ call' = [call EXCEPT ![t] = NoCall]
    /\ local' = [local EXCEPT ![t] = NoLocal]
    /\ ret' = [kind |-> kind, val |-> val, call |-> c, thread |-> t]

\* Mutant: a lock that is acquired and never released
ReleasedNever(lock, t) == lock

\* Leaving a `with lock:` block, by return or by exception
Released(lock, t) == IF lock = t THEN NoThread ELSE lock

\* Mutant: locks taken with acquire() and released on the normal path only
RaiseKeepsLocks(t, c, e) ==
    /\ UNCHANGED <<_engine_lock, _session_lock, _reflect_lock>>
    /\ Done(t, c, "err", e)

\* An exception leaves every `with` block of the thread's stack and ends the call
Raise(t, c, e) ==
    /\ _engine_lock' = Released(_engine_lock, t)
    /\ _session_lock' = Released(_session_lock, t)
    /\ _reflect_lock' = Released(_reflect_lock, t)
    /\ Done(t, c, "err", e)

\* Mutant: get_engine without its lock
EngineLockIgnored == TRUE
\* Mutant: get_session without its lock
SessionLockIgnored == TRUE

\* `with self._engine_lock:` can be entered
EngineLockFree == _engine_lock = NoThread
\* `with self._session_lock:` can be entered
SessionLockFree == _session_lock = NoThread
\* `with self._reflect_lock:` can be entered
ReflectLockFree == _reflect_lock = NoThread

-----------------------------------------------------------------------------
(* configure(), and assignment to db.query_chooser *)

\* dict.update
Merge(cfg, upd) ==
    [o \in DOMAIN cfg |-> IF o \in DOMAIN upd THEN upd[o] ELSE cfg[o]]

\* Mutant: configure() that also drops the engines built from the old options
ConfigureDropsEngines(upd) ==
    /\ budget.configure > 0
    /\ budget' = [budget EXCEPT !.configure = @ - 1]
    /\ _config' = Merge(_config, upd)
    /\ _engines' = << >>
    /\ UNCHANGED <<_sessions, _tables, _models, _engine_lock,
                   _session_lock, _reflect_lock, query_chooser, registry, made,
                   pc, call, local, ret>>

Configure(upd) ==
    /\ budget.configure > 0
    /\ budget' = [budget EXCEPT !.configure = @ - 1]
    /\ _config' = Merge(_config, upd)
    /\ UNCHANGED <<_engines, _sessions, _tables, _models, _engine_lock,
                   _session_lock, _reflect_lock, query_chooser, registry, made,
                   pc, call, local, ret>>

SetQueryChooser(c) ==
    /\ budget.configure > 0
    /\ c # query_chooser
    /\ budget' = [budget EXCEPT !.configure = @ - 1]
    /\ query_chooser' = c
    /\ UNCHANGED <<_config, _engines, _sessions, _tables, _models, _engine_lock,
                   _session_lock, _reflect_lock, registry, made,
                   pc, call, local, ret>>

-----------------------------------------------------------------------------
(* get_engine *)

\* create_engine(uri, **options): the Engine, or Null when the URI is rejected
NewEngine(k, uri) ==
    IF uri = "bad" THEN Null
    ELSE [key |-> k, ser |-> Count("engine", k) + 1, uri |-> uri,
          pool |-> _config.SQLALCHEMY_ENABLE_POOL]

\* QKShardSession.get_bind: the bind key whose engine serves shard_id;
\* `shard_id is _DEFAULT_SHARD_ID` is true of the sentinel object only
ShardBindKey(shard_id) ==
    IF shard_id = _DEFAULT_SHARD_ID THEN Default ELSE shard_id.chars

\* get_engine returns v to its caller, which goes on in call c with locals loc
Resume(t, c, loc, v) ==
    /\ _engine_lock' = Released(_engine_lock, t)
    /\ UNCHANGED <<_session_lock, _reflect_lock>>
    /\ CASE c.op = "get_engine" -> Done(t, c, "val", v)
         [] c.op = "get_session" -> Go(t, c, "gs_build", [loc EXCEPT !.engine = v])
         [] c.op = "reflect_table" -> Go(t, c, "rt_reflect", [loc EXCEPT !.engine = v])
         [] c.op = "reflect_model" -> Go(t, c, "rm_reflect", [loc EXCEPT !.engine = v])
         [] c.op = "get_bind" -> Done(t, c, "val", v)
         [] c.op \in {"query", "lookup"} ->
              \* the query is executed on the shard's engine, then the next shard
              IF v = Null THEN Done(t, c, "err", "AttributeError")
              ELSE IF Tail(loc.ids) = << >>
              THEN Done(t, c, "val", loc.targets \cup {v})
              ELSE Go(t, c, "ge_lock",
                      [loc EXCEPT !.targets = @ \cup {v}, !.ids = Tail(@),
                                  !.bind_key = ShardBindKey(loc.ids[2])])

\* `bind_key in self._engines`
EngineCached(k) == Has(_engines, k)

\* Mutant: a lookup that takes an unset primary URI for a configuration error
ResolveURIRequired(k) ==
    IF k = Default
    THEN IF _config.SQLALCHEMY_DATABASE_URI = NoURI
         THEN [err |-> "KeyError"]
         ELSE [uri |-> _config.SQLALCHEMY_DATABASE_URI]
    ELSE IF _config.SQLALCHEMY_BINDS = Null THEN [err |-> "TypeError"]
    ELSE IF k \notin DOMAIN _config.SQLALCHEMY_BINDS THEN [err |-> "KeyError"]
    ELSE [uri |-> _config.SQLALCHEMY_BINDS[k]]

\* The URI of bind key k, or the exception the lookup raises
ResolveURI(k) ==
    IF k = Default THEN [uri |-> _config.SQLALCHEMY_DATABASE_URI]
    ELSE IF _config.SQLALCHEMY_BINDS = Null THEN [err |-> "TypeError"]
    ELSE IF k \notin DOMAIN _config.SQLALCHEMY_BINDS THEN [err |-> "KeyError"]
    ELSE [uri |-> _config.SQLALCHEMY_BINDS[k]]

\* A thread calls get_engine(k)
GetEngine(t, k) ==
    /\ Idle(t)
    /\ budget' = Called
    /\ Go(t, [op |-> "get_engine", key |-> k], "ge_lock",
          [NoLocal EXCEPT !.bind_key = k])
    /\ UNCHANGED <<_config, _engines, _sessions, _tables, _models, _engine_lock,
                   _session_lock, _reflect_lock, query_chooser, registry, made>>

\* Mutant: a get_engine that stores the None it is about to return
GE_EnterCachesNone(t) ==
    /\ pc[t] = "ge_lock"
    /\ EngineLockFree
    /\ LET k == local[t].bind_key
           r == ResolveURI(k)
       IN  IF EngineCached(k)
           THEN /\ Resume(t, call[t], local[t], _engines[k])
                /\ UNCHANGED <<made, _engines>>
           ELSE IF "err" \in DOMAIN r
           THEN /\ Raise(t, call[t], r.err)
                /\ UNCHANGED <<made, _engines>>
           ELSE IF r.uri = NoURI
           THEN /\ Resume(t, call[t], local[t], Null)
                /\ _engines' = Put(_engines, k, Null)
                /\ made' = [made EXCEPT !.null_engine = @ \cup {k}]
           ELSE /\ Go(t, call[t], "ge_create", [local[t] EXCEPT !.uri = r.uri])
                /\ _engine_lock' = t
                /\ UNCHANGED <<_session_lock, _reflect_lock, made, _engines>>
    /\ UNCHANGED <<_config, _sessions, _tables, _models,
                   query_chooser, registry, budget>>

\* Lines 221-229: enter the lock, look in the cache, resolve the URI; for a
\* thread's own call and for the call get_session, reflect_table,
\* reflect_model and get_bind make
GE_Enter(t) ==
    /\ pc[t] = "ge_lock"
    /\ EngineLockFree
    /\ LET k == local[t].bind_key
           r == ResolveURI(k)
       IN  IF EngineCached(k)
           THEN /\ Resume(t, call[t], local[t], _engines[k])
                /\ UNCHANGED made
           ELSE IF "err" \in DOMAIN r
           THEN /\ Raise(t, call[t], r.err)
                /\ UNCHANGED made
           ELSE IF r.uri = NoURI
           THEN /\ Resume(t, call[t], local[t], Null)
                /\ made' = [made EXCEPT !.null_engine = @ \cup {k}]
           ELSE /\ Go(t, call[t], "ge_create", [local[t] EXCEPT !.uri = r.uri])
                /\ _engine_lock' = t
                /\ UNCHANGED <<_session_lock, _reflect_lock, made>>
    /\ UNCHANGED <<_config, _engines, _sessions, _tables, _models,
                   query_chooser, registry, budget>>

\* Lines 230-232: create the engine, store it, return it
GE_Create(t) ==
    /\ pc[t] = "ge_create"
    /\ LET k == local[t].bind_key
           engine == NewEngine(k, local[t].uri)
       IN  IF engine = Null
           THEN /\ Raise(t, call[t], "ArgumentError")
                /\ UNCHANGED <<_engines, made>>
           ELSE /\ _engines' = Put(_engines, k, engine)
                /\ made' = Bump("engine", k)
                /\ Resume(t, call[t], local[t], engine)
    /\ UNCHANGED <<_config, _sessions, _tables, _models,
                   query_chooser, registry, budget>>

-----------------------------------------------------------------------------
(* get_session *)

\* create_session(engine, shard): the scoped session over a sessionmaker
NewSession(k, engine, shard) ==
    [key |-> k, ser |-> Count("session", k) + 1,
     class_ |-> IF shard THEN "QKShardSession" ELSE "QKSession",
     bind |-> engine]

\* Mutant: the sharding flag alone decides, whatever the bind key
WantShardAnyKey(k) == _config.SQLALCHEMY_ENABLE_SHARD

\* `bind_key is None and self._config['SQLALCHEMY_ENABLE_SHARD']`
WantShard(k) == k = Default /\ _config.SQLALCHEMY_ENABLE_SHARD

\* A thread calls get_session(k)
GetSession(t, k) ==
    /\ Idle(t)
    /\ budget' = Called
    /\ Go(t, [op |-> "get_session", key |-> k], "gs_lock", NoLocal)
    /\ UNCHANGED <<_config, _engines, _sessions, _tables, _models, _engine_lock,
                   _session_lock, _reflect_lock, query_chooser, registry, made>>

\* Lines 183-186: enter the lock, look in the cache, call get_engine
GS_Enter(t) ==
    /\ pc[t] = "gs_lock"
    /\ SessionLockFree
    /\ LET k == call[t].key
       IN  IF k \in SessKeys
           THEN /\ Done(t, call[t], "val", SessVal(k))
                /\ UNCHANGED _session_lock
           ELSE /\ Go(t, call[t], "ge_lock", [local[t] EXCEPT !.bind_key = k])
                /\ _session_lock' = t
    /\ UNCHANGED <<_config, _engines, _sessions, _tables, _models, _engine_lock,
                   _reflect_lock, query_chooser, registry, made, budget>>

\* Lines 187-192: create the session, store it, return it
GS_Build(t) ==
    /\ pc[t] = "gs_build"
    /\ LET k == call[t].key
           session == NewSession(k, local[t].engine, WantShard(k))
       IN  /\ _sessions' = SessPut(k, session)
           /\ made' = Bump("session", k)
           /\ Done(t, call[t], "val", session)
    /\ _session_lock' = Released(_session_lock, t)
    /\ UNCHANGED <<_config, _engines, _tables, _models,
                   _engine_lock, _reflect_lock, query_chooser, registry, budget>>

-----------------------------------------------------------------------------
(* reset *)

\* `for session in self._sessions.values()`: the iterator notes the dict's size
Reset(t) ==
    /\ Idle(t)
    /\ budget' = Called
    /\ Go(t, [op |-> "reset"], "rs_next", [NoLocal EXCEPT !.used = Len(_sessions)])
    /\ UNCHANGED <<_config, _engines, _sessions, _tables, _models, _engine_lock,
                   _session_lock, _reflect_lock, query_chooser, registry, made>>

\* Mutant: a reset() that ends by emptying the session cache
RS_NextClearsCache(t) ==
    /\ pc[t] = "rs_next"
    /\ IF local[t].used # Len(_sessions)
       THEN /\ Raise(t, call[t], "RuntimeError")
            /\ UNCHANGED <<registry, _sessions>>
       ELSE IF local[t].pos >= Len(_sessions)
       THEN /\ Done(t, call[t], "val", Null)
            /\ _sessions' = << >>
            /\ UNCHANGED <<registry, _engine_lock, _session_lock, _reflect_lock>>
       ELSE /\ registry' = [registry EXCEPT
                              ![_sessions[local[t].pos + 1].key][t] = Null]
            /\ local' = [local EXCEPT ![t].pos = @ + 1]
            /\ UNCHANGED <<pc, call, ret, _sessions,
                           _engine_lock, _session_lock, _reflect_lock>>
    /\ UNCHANGED <<_config, _engines, _tables, _models,
                   query_chooser, made, budget>>

\* One turn of the loop: the iterator's next(), then session.remove()
RS_Next(t) ==
    /\ pc[t] = "rs_next"
    /\ IF local[t].used # Len(_sessions)
       THEN /\ Raise(t, call[t], "RuntimeError")
            /\ UNCHANGED registry
       ELSE IF local[t].pos >= Len(_sessions)
       THEN /\ Done(t, call[t], "val", Null)
            /\ UNCHANGED <<registry, _engine_lock, _session_lock, _reflect_lock>>
       ELSE /\ registry' = [registry EXCEPT
                              ![_sessions[local[t].pos + 1].key][t] = Null]
            /\ local' = [local EXCEPT ![t].pos = @ + 1]
            /\ UNCHANGED <<pc, call, ret, _engine_lock, _session_lock, _reflect_lock>>
    /\ UNCHANGED <<_config, _engines, _sessions, _tables, _models,
                   query_chooser, made, budget>>

-----------------------------------------------------------------------------
(* reflect_table, reflect_model *)

\* meta.reflect(only=[table_name]); meta.tables[table_name]
NewTable(n, engine) ==
    [name |-> n, ser |-> Count("reflect", n) + 1, uri |-> engine.uri,
     pk |-> Schema(engine.uri)[n]]

\* What meta.reflect raises for this engine and table name, or "ok"
ReflectError(n, engine) ==
    IF engine = Null THEN "UnboundExecutionError"
    ELSE IF n \notin DOMAIN Schema(engine.uri) THEN "InvalidRequestError"
    ELSE "ok"

\* A thread calls reflect_table(n, k)
ReflectTable(t, n, k) ==
    /\ Idle(t)
    /\ budget' = Called
    /\ Go(t, [op |-> "reflect_table", key |-> k, name |-> n], "rt_lock", NoLocal)
    /\ UNCHANGED <<_config, _engines, _sessions, _tables, _models, _engine_lock,
                   _session_lock, _reflect_lock, query_chooser, registry, made>>

\* Lines 265-269: enter the lock, look in self._tables, call get_engine
RT_Enter(t) ==
    /\ pc[t] = "rt_lock"
    /\ ReflectLockFree
    /\ LET n == call[t].name
       IN  IF Has(_tables, n)
           THEN /\ Done(t, call[t], "val", _tables[n])
                /\ made' = NoteFirst(made, "first_table", n, _tables[n])
                /\ UNCHANGED _reflect_lock
           ELSE /\ Go(t, call[t], "ge_lock", [local[t] EXCEPT !.bind_key = call[t].key])
                /\ _reflect_lock' = t
                /\ UNCHANGED made
    /\ UNCHANGED <<_config, _engines, _sessions, _tables, _models, _engine_lock,
                   _session_lock, query_chooser, registry, budget>>

\* Lines 270-277: introspect, store the table, return it
RT_Reflect(t) ==
    /\ pc[t] = "rt_reflect"
    /\ LET n == call[t].name
           e == ReflectError(n, local[t].engine)
       IN  \/ /\ e = "ok"
              /\ _tables' = Put(_tables, n, NewTable(n, local[t].engine))
              /\ made' = NoteFirst(Bump("reflect", n), "first_table", n,
                                   NewTable(n, local[t].engine))
              /\ Done(t, call[t], "val", NewTable(n, local[t].engine))
              /\ _reflect_lock' = Released(_reflect_lock, t)
              /\ UNCHANGED <<_engine_lock, _session_lock>>
           \/ /\ e # "ok"
              /\ Raise(t, call[t], e)
              /\ UNCHANGED <<_tables, made>>
           \/ /\ e = "ok"
              /\ Raise(t, call[t], "OperationalError")
              /\ UNCHANGED <<_tables, made>>
    /\ UNCHANGED <<_config, _engines, _sessions, _models,
                   query_chooser, registry, budget>>

\* A thread calls reflect_model(n, k)
ReflectModel(t, n, k) ==
    /\ Idle(t)
    /\ budget' = Called
    /\ Go(t, [op |-> "reflect_model", key |-> k, name |-> n], "rm_lock", NoLocal)
    /\ UNCHANGED <<_config, _engines, _sessions, _tables, _models, _engine_lock,
                   _session_lock, _reflect_lock, query_chooser, registry, made>>

\* Lines 244-248: enter the lock, look in self._models, call get_engine
RM_Enter(t) ==
    /\ pc[t] = "rm_lock"
    /\ ReflectLockFree
    /\ LET n == call[t].name
       IN  IF Has(_models, n)
           THEN /\ Done(t, call[t], "val", _models[n])
                /\ UNCHANGED _reflect_lock
           ELSE /\ Go(t, call[t], "ge_lock", [local[t] EXCEPT !.bind_key = call[t].key])
                /\ _reflect_lock' = t
    /\ UNCHANGED <<_config, _engines, _sessions, _tables, _models, _engine_lock,
                   _session_lock, query_chooser, registry, made, budget>>

\* Lines 249-253: introspect, then self._tables[table_name] = table
RM_Reflect(t) ==
    /\ pc[t] = "rm_reflect"
    /\ LET n == call[t].name
           e == ReflectError(n, local[t].engine)
       IN  \/ /\ e = "ok"
              /\ _tables' = Put(_tables, n, NewTable(n, local[t].engine))
              /\ made' = Bump("reflect", n)
              /\ Go(t, call[t], "rm_automap",
                    [local[t] EXCEPT !.table = NewTable(n, local[t].engine)])
              /\ UNCHANGED <<_engine_lock, _session_lock, _reflect_lock>>
           \/ /\ e # "ok"
              /\ Raise(t, call[t], e)
              /\ UNCHANGED <<_tables, made>>
           \/ /\ e = "ok"
              /\ Raise(t, call[t], "OperationalError")
              /\ UNCHANGED <<_tables, made>>
    /\ UNCHANGED <<_config, _engines, _sessions, _models,
                   query_chooser, registry, budget>>

\* automap maps only the tables that have a primary key
NewModel(n, table) ==
    IF table.pk
    THEN [name |-> n, ser |-> Count("model", n) + 1, table |-> table]
    ELSE Null

\* Lines 255-262: automap_base, prepare, getattr(Base.classes, table_name)
RM_Automap(t) ==
    /\ pc[t] = "rm_automap"
    /\ LET n == call[t].name
           model == NewModel(n, local[t].table)
       IN  IF model = Null
           THEN /\ Raise(t, call[t], "AttributeError")
                /\ UNCHANGED <<_models, made>>
           ELSE /\ _models' = Put(_models, n, model)
                /\ made' = NoteFirst(Bump("model", n), "first_model", n, model)
                /\ Done(t, call[t], "val", model)
                /\ _reflect_lock' = Released(_reflect_lock, t)
                /\ UNCHANGED <<_engine_lock, _session_lock>>
    /\ UNCHANGED <<_config, _engines, _sessions, _tables,
                   query_chooser, registry, budget>>

-----------------------------------------------------------------------------
(* A query through a session: db.get_session(k).query(...).all() *)

\* The scope's session object, made by the sessionmaker on first use;
\* QKShardSession.__init__ takes the choosers the db holds at that moment
NewInstance(k, session) ==
    [key |-> k, ser |-> Count("inst", k) + 1, class_ |-> session.class_,
     bind |-> session.bind,
     query_chooser |-> IF session.class_ = "QKShardSession"
                       THEN query_chooser ELSE "none"]

\* _shard_chooser(mapper, instance, clause): `return _DEFAULT_SHARD_ID`
_shard_chooser == _DEFAULT_SHARD_ID

\* _id_chooser(query, ident): `return [_DEFAULT_SHARD_ID]`
_id_chooser == <<_DEFAULT_SHARD_ID>>

\* Mutant: the body after the return, which leaves shard_ids empty, without
\* its fallback
QueryChooserNoFallback == << >>

\* _query_chooser(query): `return [_DEFAULT_SHARD_ID]`, its first statement
_query_chooser == <<_DEFAULT_SHARD_ID>>

\* _query_chooser, and the custom functions of Choosers
ShardIds(chooser) ==
    IF chooser = "default" THEN _query_chooser
    ELSE IF chooser = "named" THEN <<Str("s1"), _DEFAULT_SHARD_ID>>
    ELSE << >>

\* The scoped session k, obtained earlier, runs a query in the thread's scope:
\* the scope's instance, its query_chooser, then get_bind for the first shard
Query(t, k) ==
    /\ Idle(t)
    /\ budget' = Called
    /\ k \in SessKeys
    /\ LET c == [op |-> "query", key |-> k]
           fresh == registry[k][t] = Null
           inst == IF fresh THEN NewInstance(k, SessVal(k)) ELSE registry[k][t]
           ids == ShardIds(inst.query_chooser)
       IN  /\ registry' = [registry EXCEPT ![k][t] = inst]
           /\ made' = IF fresh THEN Bump("inst", k) ELSE made
           /\ IF inst.class_ = "QKSession"
              THEN IF inst.bind = Null
                   THEN Done(t, c, "err", "UnboundExecutionError")
                   ELSE Done(t, c, "val", {inst.bind})
              ELSE IF ids = << >>
              THEN Done(t, c, "val", {})
              ELSE Go(t, c, "ge_lock",
                      [NoLocal EXCEPT !.ids = ids, !.bind_key = ShardBindKey(ids[1])])
    /\ UNCHANGED <<_config, _engines, _sessions, _tables, _models, _engine_lock,
                   _session_lock, _reflect_lock, query_chooser>>

\* The scope's instance of the sharded default session loads an object by its
\* primary key: id_chooser lists the shards, get_bind resolves each of them
Lookup(t) ==
    /\ Idle(t)
    /\ budget' = Called
    /\ Default \in SessKeys
    /\ SessVal(Default).class_ = "QKShardSession"
    /\ LET c == [op |-> "lookup", key |-> Default]
           fresh == registry[Default][t] = Null
           inst == IF fresh THEN NewInstance(Default, SessVal(Default))
                   ELSE registry[Default][t]
       IN  /\ registry' = [registry EXCEPT ![Default][t] = inst]
           /\ made' = IF fresh THEN Bump("inst", Default) ELSE made
           /\ Go(t, c, "ge_lock",
                 [NoLocal EXCEPT !.ids = _id_chooser,
                                 !.bind_key = ShardBindKey(_id_chooser[1])])
    /\ UNCHANGED <<_config, _engines, _sessions, _tables, _models, _engine_lock,
                   _session_lock, _reflect_lock, query_chooser>>

\* QKShardSession.get_bind(mapper, shard_id, instance, clause) on the sharded
\* default session: shard_id is the caller's, or Null (None), and then chosen
\* is what self.shard_chooser(mapper, instance, clause=clause) returns
GetBind(t, shard_id, chosen) ==
    /\ Idle(t)
    /\ budget' = Called
    /\ Default \in SessKeys
    /\ SessVal(Default).class_ = "QKShardSession"
    /\ (shard_id = Null) # (chosen = Null)
    /\ Go(t, [op |-> "get_bind", shard_id |-> shard_id, chosen |-> chosen],
          "ge_lock",
          [NoLocal EXCEPT !.bind_key =
               ShardBindKey(IF shard_id = Null THEN chosen ELSE shard_id)])
    /\ UNCHANGED <<_config, _engines, _sessions, _tables, _models, _engine_lock,
                   _session_lock, _reflect_lock, query_chooser, registry, made>>

-----------------------------------------------------------------------------
(* _get_query_comparisons(query)                                           *)
(*                                                                         *)
(* A clause element is a record; visit is its __visit_name__.  A Column    *)
(* has a name; a BindParameter a key, a callable (None, or a function that *)
(* returns `returns`) and a value; a BinaryExpression a left, an operator  *)
(* and a right; a ClauseList (the list of an IN, and the operands of AND   *)
(* and OR) its clauses.                                                    *)

\* The values of parameters: an int, and the tuple of the values of an IN
Int(n) == [int |-> n]
Tuple(vs) == [tuple |-> vs]

Column(n) == [visit |-> "column", name |-> n]
BindParameter(k, c, v) == [visit |-> "bindparam", key |-> k, callable |-> c, value |-> v]
BinaryExpression(l, o, r) == [visit |-> "binary", left |-> l, operator |-> o, right |-> r]
ClauseList(o, cs) == [visit |-> "clauselist", operator |-> o, clauses |-> cs]

\* The clause elements of the queries callers pass
Columns == {Column("c1"), Column("c2")}
BindParams ==
    { BindParameter("p1", Null, Int(1)),
      BindParameter("p1", [returns |-> Int(2)], Int(1)),
      BindParameter("p2", [returns |-> Int(2)], Int(1)),
      BindParameter("p2", Null, Int(3)) }
Operators == {"eq", "in_op"}
\* the members of an IN list: literals, and a column expression
ListMembers == {BindParameter("p2", [returns |-> Int(2)], Int(1)), Column("c2")}
Lists == UNION {[1..n -> ListMembers] : n \in 1..MaxListLen}
Operands == Columns \cup BindParams
InBinaries ==
    { BinaryExpression(l, "in_op", ClauseList("comma", cs)) :
          l \in {Column("c1"), BindParameter("p1", Null, Int(1))}, cs \in Lists }
Binaries ==
    {BinaryExpression(l, o, r) : l \in Operands, o \in Operators, r \in Operands}
        \cup InBinaries
\* the first operand of an AND or OR
Firsts ==
    {b \in Binaries : b.left = Column("c1") /\ b.right \notin Columns}
\* the second operand of an AND or OR
Others ==
    { BinaryExpression(Column("c2"), "eq", BindParameter("p2", Null, Int(3))),
      BinaryExpression(BindParameter("p1", Null, Int(1)), "eq", Column("c1")),
      ClauseList("or_",
          << BinaryExpression(Column("c1"), "in_op",
                 ClauseList("comma", <<BindParameter("p1", Null, Int(1)),
                                       BindParameter("p2", Null, Int(3))>>)),
             BinaryExpression(Column("c2"), "eq", Column("c1")) >>) }
Criteria ==
    Binaries \cup {ClauseList(o, <<x, y>>) : o \in {"and_", "or_"}, x \in Firsts, y \in Others}
\* query._params, and the queries: query._criterion is None or a clause
ParamMaps == {<< >>, [p1 |-> Int(5)]}
Queries ==
    {[_params |-> m, _criterion |-> c] : m \in ParamMaps, c \in Criteria \cup {Null}}

\* The locals binds, clauses and comparisons, and the exception under way
NoVisits == [binds |-> << >>, clauses |-> {}, comparisons |-> << >>, err |-> Null]

\* Mutant: a visit_bindparam that looks at the callable before query._params
visit_bindparam_callable_first(query, bind, st) ==
    LET value == IF bind.callable # Null THEN bind.callable.returns
                 ELSE IF Has(query._params, bind.key) THEN query._params[bind.key]
                 ELSE bind.value
    IN  [st EXCEPT !.binds = Put(st.binds, bind, value)]

\* Lines 335-350
visit_bindparam(query, bind, st) ==
    LET value == IF Has(query._params, bind.key) THEN query._params[bind.key]
                 ELSE IF bind.callable # Null THEN bind.callable.returns
                 ELSE bind.value
    IN  [st EXCEPT !.binds = Put(st.binds, bind, value)]

\* Lines 352-353
visit_column(column, st) == [st EXCEPT !.clauses = @ \cup {column}]

\* hasattr(binary.right, 'clauses')
HasClauses(e) == "clauses" \in DOMAIN e

\* Lines 355-373; binds[bind] raises KeyError for a bind that is not a key
visit_binary(binary, st) ==
    IF /\ binary.left \in st.clauses
       /\ binary.operator = "in_op"
       /\ HasClauses(binary.right)
    THEN LET cs == binary.right.clauses
         IN  IF \E i \in 1..Len(cs) : ~Has(st.binds, cs[i])
             THEN [st EXCEPT !.err = [exc |-> "KeyError"]]
             ELSE [st EXCEPT !.comparisons =
                      Append(@, <<binary.left, binary.operator,
                                  Tuple([i \in 1..Len(cs) |-> st.binds[cs[i]]])>>)]
    ELSE IF binary.left \in st.clauses /\ Has(st.binds, binary.right)
    THEN [st EXCEPT !.comparisons =
             Append(@, <<binary.left, binary.operator, st.binds[binary.right]>>)]
    ELSE IF Has(st.binds, binary.left) /\ binary.right \in st.clauses
    THEN [st EXCEPT !.comparisons =
             Append(@, <<binary.right, binary.operator, st.binds[binary.left]>>)]
    ELSE st

\* element.get_children()
Children(e) ==
    IF e.visit = "binary" THEN <<e.left, e.right>>
    ELSE IF e.visit = "clauselist" THEN e.clauses
    ELSE << >>

\* visitors.traverse_depthfirst(query._criterion, {}, {...}): every element
\* after its descendants, each handed to the visitor of its __visit_name__
RECURSIVE traverse_depthfirst(_, _, _)
RECURSIVE traverse_all(_, _, _)
traverse_all(query, es, st) ==
    IF es = << >> THEN st
    ELSE traverse_all(query, Tail(es), traverse_depthfirst(query, Head(es), st))

traverse_depthfirst(query, e, st) ==
    LET below == traverse_all(query, Children(e), st)
    IN  IF below.err # Null THEN below
        ELSE IF e.visit = "bindparam" THEN visit_bindparam(query, e, below)
        ELSE IF e.visit = "column" THEN visit_column(e, below)
        ELSE IF e.visit = "binary" THEN visit_binary(e, below)
        ELSE below

\* Lines 322-385: the list of comparisons, or the exception
_get_query_comparisons(query) ==
    IF query._criterion = Null THEN [kind |-> "val", val |-> << >>]
    ELSE LET st == traverse_depthfirst(query, query._criterion, NoVisits)
         IN  IF st.err # Null THEN [kind |-> "err", val |-> st.err.exc]
             ELSE [kind |-> "val", val |-> st.comparisons]

\* A thread calls _get_query_comparisons(query), as a custom chooser does
GetQueryComparisons(t, query) ==
    /\ Idle(t)
    /\ budget' = Called
    /\ LET r == _get_query_comparisons(query)
       IN  Done(t, [op |-> "_get_query_comparisons", query |-> query], r.kind, r.val)
    /\ UNCHANGED <<_config, _engines, _sessions, _tables, _models, _engine_lock,
                   _session_lock, _reflect_lock, query_chooser, registry, made>>

-----------------------------------------------------------------------------
(* The calls of one specification: the configuration dicts U, the choosers C, *)
(* the bind keys K and the table names N its callers use                     *)

EngineCalls(U, K) ==
    \/ \E u \in U : Configure(u)
    \/ \E t \in Threads, k \in K : GetEngine(t, k)
    \/ \E t \in Threads : GE_Enter(t)
    \/ \E t \in Threads : GE_Create(t)

SessionCalls(K) ==
    \/ \E t \in Threads, k \in K : GetSession(t, k)
    \/ \E t \in Threads : GS_Enter(t)
    \/ \E t \in Threads : GS_Build(t)
    \/ \E t \in Threads : Reset(t)
    \/ \E t \in Threads : RS_Next(t)

QueryCalls(C, K) ==
    \/ \E c \in C : SetQueryChooser(c)
    \/ \E t \in Threads, k \in K : Query(t, k)

\* The operations of a sharded default session, with the default choosers
BindCalls ==
    \/ \E t \in Threads, shard_id \in ShardIdArgs \cup {Null},
          chosen \in ShardIdArgs \cup {Null} : GetBind(t, shard_id, chosen)
    \/ \E t \in Threads : Lookup(t)
    \/ \E t \in Threads : Query(t, Default)

ReflectCalls(K, N) ==
    \/ \E t \in Threads, n \in N, k \in K : ReflectTable(t, n, k)
    \/ \E t \in Threads : RT_Enter(t)
    \/ \E t \in Threads : RT_Reflect(t)
    \/ \E t \in Threads, n \in N, k \in K : ReflectModel(t, n, k)
    \/ \E t \in Threads : RM_Enter(t)
    \/ \E t \in Threads : RM_Reflect(t)
    \/ \E t \in Threads : RM_Automap(t)

\* Every call: queries and reflection through the default bind, on the table "t"
Next ==
    \/ EngineCalls(Updates, BindKeys)
    \/ SessionCalls(BindKeys)
    \/ QueryCalls({"empty"}, {Default})
    \/ ReflectCalls({Default}, {"t"})

Spec == Init /\ [][Next]_vars

\* The engine registry alone
NextEngine == EngineCalls(EngineUpdates, BindKeys)

SpecEngine == InitWith(MaxEngineCalls, MaxConfigure) /\ [][NextEngine]_vars

\* The session registry, and the queries through its sessions
NextSession ==
    \/ EngineCalls(SessionUpdates, {})
    \/ SessionCalls(BindKeys)
    \/ QueryCalls(Choosers, BindKeys)

SpecSession == InitWith(MaxSessionCalls, MaxConfigure) /\ [][NextSession]_vars

\* The metadata reflector
NextReflect ==
    \/ EngineCalls(ReflectUpdates, {})
    \/ ReflectCalls(BindKeys, TableNames)

SpecReflect == InitWith(MaxReflectCalls, MaxReflectConfigure) /\ [][NextReflect]_vars

\* The next step of thread t inside the call it has made
Step(t) ==
    \/ GE_Enter(t) \/ GE_Create(t)
    \/ GS_Enter(t) \/ GS_Build(t)
    \/ RS_Next(t)
    \/ RT_Enter(t) \/ RT_Reflect(t)
    \/ RM_Enter(t) \/ RM_Reflect(t) \/ RM_Automap(t)

\* The five operations that take locks or read the caches, on the default
\* bind; a thread inside a call is scheduled again and again
NextLocks ==
    \/ EngineCalls(LockUpdates, {Default})
    \/ SessionCalls({Default})
    \/ ReflectCalls({Default}, {"t"})

SpecLocks ==
    /\ InitWith(MaxLockCalls, MaxLockConfigure)
    /\ [][NextLocks]_vars
    /\ \A t \in Threads : WF_vars(Step(t))

\* The predicate extractor alone
NextExtract == \E t \in Threads, query \in Queries : GetQueryComparisons(t, query)

SpecExtract == InitWith(MaxExtractCalls, 0) /\ [][NextExtract]_vars

\* The engine and session registries with URIs create_engine rejects and
\* bind keys the configuration lacks
NextRaise ==
    \/ EngineCalls(RaiseUpdates, BindKeys)
    \/ SessionCalls(BindKeys)

SpecRaise == InitWith(MaxRaiseCalls, MaxRaiseConfigure) /\ [][NextRaise]_vars

\* The sharded default session: get_session(None), then its operations
NextBind ==
    \/ EngineCalls(BindUpdates, {})
    \/ SessionCalls({Default})
    \/ BindCalls

SpecBind == InitWith(MaxBindCalls, MaxBindConfigure) /\ [][NextBind]_vars

-----------------------------------------------------------------------------
(* The claims *)

\* Thread t ends its call in this step
Ends(t) == pc[t] # "idle" /\ pc'[t] = "idle"

\* C1: however the first get_engine(k) calls of several threads interleave,
\* one Engine at most is constructed for k, and every caller that gets an
\* Engine gets the one the cache holds, the only one constructed.
C1_SingleEngineConstruction ==
    \A k \in BindKeys :
        /\ made.engine[k] <= 1
        /\ (ret.kind = "val" /\ ret.call.op = "get_engine" /\ ret.call.key = k
              /\ ret.val # Null)
             => /\ made.engine[k] = 1
                /\ k \in DOMAIN _engines
                /\ ret.val = _engines[k]

\* Two threads called get_engine(k) before an engine existed; one has built
\* and returned it while the other is still at the lock.
C1_Witness ==
    \E t1, t2 \in Threads :
        /\ t1 # t2
        /\ ret.kind = "val" /\ ret.thread = t1 /\ ret.call.op = "get_engine"
        /\ ret.val # Null
        /\ made.engine[ret.call.key] = 1
        /\ pc[t2] = "ge_lock" /\ call[t2] = ret.call
        /\ budget.calls = MaxEngineCalls - 2

\* C2: an Engine once cached for k stays the cache's entry for k through every
\* step of every operation, no further Engine is constructed for k, and a
\* get_engine(k) that ends while k is cached returns that Engine.
C2_EngineNeverReplaced ==
    [][ /\ \A k \in DOMAIN _engines :
              /\ k \in DOMAIN _engines'
              /\ _engines'[k] = _engines[k]
              /\ made'.engine[k] = made.engine[k]
        /\ \A k \in BindKeys : made'.engine[k] <= 1
        /\ \A t \in Threads :
              (Ends(t) /\ call[t].op = "get_engine" /\ ret'.kind = "val"
                 /\ call[t].key \in DOMAIN _engines)
                => ret'.val = _engines[call[t].key]
      ]_vars

\* get_engine(k) returns the cached Engine after get_session(k) was bound to
\* it and configure() has changed the URI of k.
C2_Witness ==
    /\ ret.kind = "val" /\ ret.call.op = "get_engine"
    /\ ret.call.key \in DOMAIN _engines
    /\ ret.val = _engines[ret.call.key]
    /\ ret.call.key \in SessKeys
    /\ SessVal(ret.call.key).bind = ret.val
    /\ "uri" \in DOMAIN ResolveURI(ret.call.key)
    /\ ResolveURI(ret.call.key).uri # ret.val.uri

\* C3: however get_session(k) calls interleave, one scoped session at most is
\* constructed for k, and every get_session(k) returns the one the cache holds.
C3_SingleSessionFactory ==
    \A k \in BindKeys :
        /\ made.session[k] <= 1
        /\ (ret.kind = "val" /\ ret.call.op = "get_session" /\ ret.call.key = k)
             => /\ made.session[k] = 1
                /\ k \in SessKeys
                /\ ret.val = SessVal(k)

\* Two threads called get_session(k) before a session existed; one has built
\* and returned it while the other is still at the lock.
C3_Witness ==
    \E t1, t2 \in Threads :
        /\ t1 # t2
        /\ ret.kind = "val" /\ ret.thread = t1 /\ ret.call.op = "get_session"
        /\ made.session[ret.call.key] = 1
        /\ pc[t2] = "gs_lock" /\ call[t2] = ret.call
        /\ budget.calls = MaxSessionCalls - 2

\* C4: a get_engine(k) for a named k that is not cached and not in the bind
\* mapping, be the mapping configured without k or not configured at all,
\* ends with KeyError and caches nothing.
C4_UnknownBindRaisesKeyError ==
    [][ \A t \in Threads :
          (/\ pc[t] = "ge_lock" /\ pc'[t] # "ge_lock"
           /\ call[t].op = "get_engine"
           /\ call[t].key \in NamedKeys
           /\ call[t].key \notin DOMAIN _engines
           /\ \/ _config.SQLALCHEMY_BINDS = Null
              \/ call[t].key \notin DOMAIN _config.SQLALCHEMY_BINDS)
            => /\ Ends(t)
               /\ ret'.kind = "err" /\ ret'.val = "KeyError"
               /\ _engines' = _engines
      ]_vars

\* C5: a query through the default session is issued against one engine at
\* least, whatever the query chooser returns.
C5_QueryTargetsSomeShard ==
    (ret.kind = "val" /\ ret.call.op = "query" /\ ret.call.key = Default)
        => ret.val # {}

\* C6: a table name is introspected once at most, whatever the sequence of
\* reflect_table and reflect_model calls.
C6_IntrospectedOnce ==
    \A n \in TableNames : made.reflect[n] <= 1

\* C7: every successful reflect_table(n, ...) returns the Table the first
\* successful one returned, and every successful reflect_model(n, ...) the
\* class the first successful one returned.
C7_FirstWriterWins ==
    /\ (ret.kind = "val" /\ ret.call.op = "reflect_table")
         => ret.val = made.first_table[ret.call.name]
    /\ (ret.kind = "val" /\ ret.call.op = "reflect_model")
         => ret.val = made.first_model[ret.call.name]

\* C8: after a reflect_table or reflect_model call for n has failed, with no
\* other call inside the reflector and no call for n having succeeded, neither
\* cache has an entry for n.
C8_FailureCachesNothing ==
    (/\ ret.kind = "err"
     /\ ret.call.op \in {"reflect_table", "reflect_model"}
     /\ _reflect_lock = NoThread
     /\ made.first_table[ret.call.name] = Null
     /\ made.first_model[ret.call.name] = Null)
      => /\ ret.call.name \notin DOMAIN _tables
         /\ ret.call.name \notin DOMAIN _models

\* C9: the session of a named bind key is a QKSession; the default session is
\* a QKShardSession exactly when SQLALCHEMY_ENABLE_SHARD holds as it is
\* constructed; and the class of a cached session never changes.
C9_SessionKind ==
    [][ /\ \A k \in KeysIn(_sessions') \cap NamedKeys :
              ValIn(_sessions', k).class_ = "QKSession"
        /\ (Default \in KeysIn(_sessions') /\ Default \notin SessKeys)
             => (ValIn(_sessions', Default).class_ = "QKShardSession"
                   <=> _config.SQLALCHEMY_ENABLE_SHARD)
        /\ \A k \in SessKeys :
              /\ k \in KeysIn(_sessions')
              /\ ValIn(_sessions', k).class_ = SessVal(k).class_
      ]_vars

\* With sharding enabled, the default session is sharded and the session of
\* the named bind is not.
C9_Witness ==
    /\ _config.SQLALCHEMY_ENABLE_SHARD
    /\ Default \in SessKeys /\ SessVal(Default).class_ = "QKShardSession"
    /\ "s1" \in SessKeys /\ SessVal("s1").class_ = "QKSession"

\* Thread t takes a step of reset()
ResetStep(t) ==
    \/ pc[t] = "idle" /\ pc'[t] = "rs_next"
    \/ pc[t] = "rs_next" /\ <<pc[t], local[t]>> # <<pc'[t], local'[t]>>

\* C10: a step of reset() by thread t changes nothing but instances of t's
\* scope, which it discards; when reset() returns, no cached session has an
\* instance in t's scope; and an instance that appears in a scope is a new one.
C10_ResetFrame ==
    [][ \A t \in Threads :
          /\ ResetStep(t)
               => /\ UNCHANGED <<_config, _engines, _sessions, _tables, _models,
                                 query_chooser, made>>
                  /\ \A k \in BindKeys :
                        /\ registry'[k][t] \in {registry[k][t], Null}
                        /\ \A u \in Threads \ {t} : registry'[k][u] = registry[k][u]
          /\ (Ends(t) /\ call[t].op = "reset" /\ ret'.kind = "val")
               => \A k \in SessKeys : registry'[k][t] = Null
          /\ \A k \in BindKeys :
                (registry'[k][t] # registry[k][t] /\ registry'[k][t] # Null)
                  => registry'[k][t].ser > made.inst[k]
      ]_vars

\* After get_session, a query, reset() and a second query, the scope holds the
\* second instance made for the session and the cache still holds the session.
C10_Witness ==
    \E k \in SessKeys :
        /\ ret.kind # "none"
        /\ ret.call.op = "query" /\ ret.call.key = k
        /\ registry[k][ret.thread] # Null
        /\ registry[k][ret.thread].ser = 2
        /\ \A u \in Threads \ {ret.thread} : registry[k][u] = Null
        /\ budget.calls = MaxSessionCalls - 4

\* C11: while SQLALCHEMY_DATABASE_URI is unset and sharding is off, a
\* get_engine(None) that ends has returned None and cached nothing, and a
\* get_session(None) that ends has returned the cached session, a QKSession
\* without an engine; neither raises.  (No configure() of Spec unsets a URI,
\* so a URI that is unset as the call ends was unset all through the call.)
C11_UnsetURIGivesNullEngine ==
    [][ \A t \in Threads :
          (/\ Ends(t)
           /\ call[t].op \in {"get_engine", "get_session"}
           /\ call[t].key = Default
           /\ _config.SQLALCHEMY_DATABASE_URI = NoURI
           /\ ~_config.SQLALCHEMY_ENABLE_SHARD
           /\ Default \notin DOMAIN _engines)
            => /\ call[t].op = "get_engine"
                    => /\ ret'.kind = "val" /\ ret'.val = Null
                       /\ _engines' = _engines
               /\ call[t].op = "get_session"
                    => /\ ret'.kind = "val"
                       /\ ret'.val.class_ = "QKSession"
                       /\ ret'.val.bind = Null
                       /\ Default \in KeysIn(_sessions')
                       /\ ValIn(_sessions', Default) = ret'.val
      ]_vars

\* With the URI still unset, get_session(None) has cached an engine-less
\* session and a get_engine(None) after it has returned None.
C11_Witness ==
    /\ _config.SQLALCHEMY_DATABASE_URI = NoURI
    /\ ~_config.SQLALCHEMY_ENABLE_SHARD
    /\ ret.kind = "val" /\ ret.call.op = "get_engine" /\ ret.call.key = Default
    /\ ret.val = Null
    /\ Default \in SessKeys /\ SessVal(Default).bind = Null
    /\ _engines = << >>

\* C12: the engine cache never holds None; a get_engine(k) that returns None
\* has stored nothing; a get_engine(k) that finds k not cached and a URI set
\* for k goes on to create_engine; and what create_engine returns is cached
\* under k and returned.
C12_NullEngineNeverCached ==
    [][ /\ \A k \in DOMAIN _engines' : _engines'[k] # Null
        /\ \A t \in Threads :
              /\ (Ends(t) /\ call[t].op = "get_engine"
                     /\ ret'.kind = "val" /\ ret'.val = Null)
                   => /\ _engines' = _engines
                      /\ call[t].key \notin DOMAIN _engines'
              /\ (/\ pc[t] = "ge_lock" /\ pc'[t] # "ge_lock"
                  /\ call[t].op = "get_engine"
                  /\ ~EngineCached(call[t].key)
                  /\ "uri" \in DOMAIN ResolveURI(call[t].key)
                  /\ ResolveURI(call[t].key).uri # NoURI)
                   => /\ pc'[t] = "ge_create"
                      /\ local'[t].uri = ResolveURI(call[t].key).uri
              /\ (/\ pc[t] = "ge_create" /\ pc'[t] # "ge_create"
                  /\ call[t].op = "get_engine"
                  /\ local[t].uri # "bad")
                   => /\ Ends(t)
                      /\ ret'.kind = "val" /\ ret'.val # Null
                      /\ ret'.val.uri = local[t].uri
                      /\ call[t].key \in DOMAIN _engines'
                      /\ _engines'[call[t].key] = ret'.val
                      /\ made'.engine[call[t].key] = made.engine[call[t].key] + 1
      ]_vars

\* get_engine(k) returned None, configure() set the URI of k, and the next
\* get_engine(k) has constructed, cached and returned the first Engine of k.
C12_Witness ==
    /\ ret.kind = "val" /\ ret.call.op = "get_engine"
    /\ ret.call.key \in made.null_engine
    /\ ret.val # Null /\ ret.val.ser = 1
    /\ _engines[ret.call.key] = ret.val
    /\ budget.calls = MaxEngineCalls - 2
    /\ budget.configure = MaxConfigure - 1

\* C13: get_bind takes the shard id it is given, or else the one shard_chooser
\* returns; for a shard id equal to the sentinel '' it calls get_engine(None),
\* for any other shard id s get_engine(s), and it returns what that call
\* returns.
C13_BindResolution ==
    [][ \A t \in Threads :
          (Ends(t) /\ call[t].op = "get_bind")
            => LET sid == IF call[t].shard_id # Null THEN call[t].shard_id
                          ELSE call[t].chosen
                   k == IF sid.chars = _DEFAULT_SHARD_ID.chars THEN Default
                        ELSE sid.chars
               IN  /\ local[t].bind_key = k
                   /\ ret'.kind = "val"
                        => ret'.val = IF k \in DOMAIN _engines'
                                      THEN _engines'[k] ELSE Null
      ]_vars

\* C14: with the default choosers, get_bind without a shard id resolves to
\* get_engine(None) and returns what it returns; a lookup and a query through
\* the sharded default session that return were run on the default bind's
\* Engine and on no other; and that is the Engine a plain default session
\* runs its queries on.
C14_DefaultChoosersUseDefaultBind ==
    /\ [][ \A t \in Threads :
              (Ends(t) /\ call[t].op = "get_bind" /\ call[t].shard_id = Null
                 /\ call[t].chosen = _shard_chooser)
                => /\ local[t].bind_key = Default
                   /\ ret'.kind = "val"
                   /\ ret'.val = IF Default \in DOMAIN _engines'
                                 THEN _engines'[Default] ELSE Null
          ]_vars
    /\ [](/\ ret.kind = "val"
          /\ ret.call.op \in {"query", "lookup"}
          /\ ret.call.key = Default
          /\ registry[Default][ret.thread].query_chooser \in {"default", "none"}
          => /\ Default \in DOMAIN _engines
             /\ ret.val = {_engines[Default]})

\* A query through the sharded default session, with the default
\* query_chooser, has returned after running on the default bind's Engine.
C14_Witness ==
    /\ ret.kind = "val" /\ ret.call.op = "query" /\ ret.call.key = Default
    /\ SessVal(Default).class_ = "QKShardSession"
    /\ registry[Default][ret.thread].query_chooser = "default"
    /\ ret.val = {_engines[Default]}

\* Thread t is inside get_engine, its own call or the one get_session makes
InGetEngine(t) == pc[t] \in {"ge_lock", "ge_create"}

\* C15: a get_engine that finds no URI for its bind key, or whose URI
\* create_engine rejects, ends the caller's call (get_engine or get_session)
\* with that exception; the step that raises leaves the engine and session
\* caches as they were and the thread holding no lock; and a lock is only
\* ever held by a thread inside its `with` block, so no finished call keeps
\* later callers out.
C15_RaiseReleasesLocks ==
    /\ [][ \A t \in Threads :
              /\ (/\ InGetEngine(t) /\ pc'[t] # pc[t]
                  /\ \/ /\ pc[t] = "ge_lock"
                        /\ ~EngineCached(local[t].bind_key)
                        /\ "err" \in DOMAIN ResolveURI(local[t].bind_key)
                     \/ pc[t] = "ge_create" /\ local[t].uri = "bad")
                   => /\ Ends(t)
                      /\ ret'.kind = "err" /\ ret'.call = call[t]
                      /\ ret'.val \in {"TypeError", "KeyError", "ArgumentError"}
              /\ (InGetEngine(t) /\ Ends(t) /\ ret'.kind = "err")
                   => /\ _engines' = _engines
                      /\ _sessions' = _sessions
                      /\ _engine_lock' # t
                      /\ _session_lock' # t
                      /\ _reflect_lock' # t
          ]_vars
    /\ [](\A t \in Threads :
            /\ _engine_lock = t => pc[t] = "ge_create"
            /\ _session_lock = t
                 => /\ pc[t] \in {"ge_lock", "ge_create", "gs_build"}
                    /\ call[t].op = "get_session"
            /\ _reflect_lock # t)

\* get_session(k) has failed inside create_engine while it held both locks,
\* and another thread's get_session has since entered both.
C15_Witness ==
    /\ ret.kind = "err" /\ ret.val = "ArgumentError"
    /\ ret.call.op = "get_session"
    /\ \E t \in Threads \ {ret.thread} :
          /\ pc[t] = "ge_create" /\ call[t].op = "get_session"
          /\ _session_lock = t /\ _engine_lock = t
    /\ _engines = << >> /\ _sessions = << >>

\* The locks thread t holds
Held(t) ==
    {l \in {"engine", "session", "reflect"} :
        \/ l = "engine" /\ _engine_lock = t
        \/ l = "session" /\ _session_lock = t
        \/ l = "reflect" /\ _reflect_lock = t}

\* The lock thread t is waiting to enter, if any
Wants(t) ==
    IF pc[t] = "ge_lock" THEN {"engine"}
    ELSE IF pc[t] = "gs_lock" THEN {"session"}
    ELSE IF pc[t] \in {"rt_lock", "rm_lock"} THEN {"reflect"}
    ELSE {}

\* C16: a thread holds the session lock alone, the reflect lock alone, or one
\* of them together with the engine lock; it waits for the engine lock only
\* while it holds no engine lock, and for the session or reflect lock only
\* while it holds no lock at all; as long as a call is under way some thread
\* inside a call can take a step; and every call ends.
C16_NoDeadlock ==
    /\ [](\A t \in Threads :
            /\ Held(t) \in {{}, {"engine"}, {"session"}, {"reflect"},
                             {"session", "engine"}, {"reflect", "engine"}}
            /\ Wants(t) \cap Held(t) = {}
            /\ Wants(t) = {"engine"} => "engine" \notin Held(t)
            /\ Wants(t) \in {{"session"}, {"reflect"}} => Held(t) = {}
            /\ pc[t] = "idle" => Held(t) = {})
    /\ []((\E t \in Threads : pc[t] # "idle")
            => \E t \in Threads : pc[t] # "idle" /\ ENABLED Step(t))
    /\ \A t \in Threads : (pc[t] # "idle") ~> (pc[t] = "idle")

\* One thread is inside get_session holding the session and engine locks,
\* while the other, inside reflect_table, holds the reflect lock and waits for
\* the engine lock.
C16_Witness ==
    \E t1, t2 \in Threads :
        /\ Held(t1) = {"session", "engine"}
        /\ Held(t2) = {"reflect"} /\ Wants(t2) = {"engine"}

\* The binary comparisons of a filter tree, at any depth
RECURSIVE BinariesOf(_)
BinariesOf(e) ==
    IF e.visit = "binary" THEN {e} \cup BinariesOf(e.left) \cup BinariesOf(e.right)
    ELSE IF e.visit = "clauselist"
    THEN UNION {BinariesOf(e.clauses[i]) : i \in 1..Len(e.clauses)}
    ELSE {}

IsColumn(e) == e.visit = "column"
IsBind(e) == e.visit = "bindparam"
IsList(e) == e.visit = "clauselist"

\* The value of bound parameter b in query: the entry of the explicit
\* parameter map, else the result of the callable, else the literal value
ByPriority(query, b) ==
    IF b.key \in DOMAIN query._params THEN query._params[b.key]
    ELSE IF b.callable # Null THEN b.callable.returns
    ELSE b.value

\* The tuple of binary comparison b, if it has a column on one side and
\* bound values on the other
TupleOf(query, b) ==
    IF IsColumn(b.left) /\ IsBind(b.right)
    THEN {<<b.left, b.operator, ByPriority(query, b.right)>>}
    ELSE IF IsBind(b.left) /\ IsColumn(b.right)
    THEN {<<b.right, b.operator, ByPriority(query, b.left)>>}
    ELSE IF /\ IsColumn(b.left) /\ b.operator = "in_op" /\ IsList(b.right)
            /\ \A i \in 1..Len(b.right.clauses) : IsBind(b.right.clauses[i])
    THEN {<<b.left, b.operator,
            Tuple([i \in 1..Len(b.right.clauses) |->
                       ByPriority(query, b.right.clauses[i])])>>}
    ELSE {}

Expected(query) ==
    IF query._criterion = Null THEN {}
    ELSE UNION {TupleOf(query, b) : b \in BinariesOf(query._criterion)}

Extracted == ret.kind # "none" /\ ret.call.op = "_get_query_comparisons"

\* C17: for every query, _get_query_comparisons returns a list, and the list
\* holds exactly the tuples (column, operator, value) of the binary
\* comparisons of the filter tree, at any depth under AND and OR, that have a
\* column on one side and bound values on the other: the column first, and
\* for column IN (list) one tuple with the tuple of the list's values; one
\* tuple for each such comparison, and none for a query without a filter.
C17_ExtractsColumnBoundComparisons ==
    Extracted =>
        /\ ret.kind = "val"
        /\ \A x \in {ret.val[i] : i \in 1..Len(ret.val)} \cup Expected(ret.call.query) :
              Cardinality({i \in 1..Len(ret.val) : ret.val[i] = x})
                = Cardinality({b \in BinariesOf(ret.call.query._criterion) :
                                  x \in TupleOf(ret.call.query, b)})

\* C18: reset() walks the session cache under the session lock, so that no
\* get_session inserts into the cache during the walk and no reset() ends with
\* an exception.
C18_ResetNeverFails ==
    /\ \A t \in Threads :
          (pc[t] = "rs_next" /\ local[t].pos > 0)
            => local[t].used = Len(_sessions)
    /\ (ret.kind # "none" /\ ret.call.op = "reset") => ret.kind = "val"

\* C19: a cached QKSession of bind key k is bound to the Engine the engine
\* cache holds for k, and has no engine only while the cache holds none.
C19_PlainSessionBoundToCachedEngine ==
    \A k \in SessKeys :
        SessVal(k).class_ = "QKSession"
          => SessVal(k).bind = IF k \in DOMAIN _engines THEN _engines[k] ELSE Null

\* The bound parameters compared with a column in filter tree e
BoundOperands(e) ==
    UNION { IF IsColumn(b.left) /\ IsBind(b.right) THEN {b.right}
            ELSE IF IsBind(b.left) /\ IsColumn(b.right) THEN {b.left}
            ELSE {} : b \in BinariesOf(e) }

\* C20: the value in a comparison that _get_query_comparisons extracts from
\* a column and a bound parameter is the entry of query._params under the
\* parameter's key when there is one, else the result of the parameter's
\* callable when it has one, else the parameter's literal value.
C20_BoundValuePriority ==
    (Extracted /\ ret.kind = "val" /\ ret.call.query._criterion # Null) =>
        LET query == ret.call.query
            e == query._criterion
        IN  \A b \in BinariesOf(e) :
              \A p \in BoundOperands(b) :
                LET c == IF IsColumn(b.left) THEN b.left ELSE b.right
                    v == IF p.key \in DOMAIN query._params THEN query._params[p.key]
                         ELSE IF p.callable # Null THEN p.callable.returns
                         ELSE p.value
                IN  \E i \in 1..Len(ret.val) : ret.val[i] = <<c, b.operator, v>>

\* Witness of C20: a comparison with a bound parameter that has an entry in
\* query._params, a callable and a literal value, all three different, has
\* been extracted with the entry of query._params
C20_Witness ==
    /\ Extracted /\ ret.kind = "val" /\ ret.call.query._criterion # Null
    /\ \E p \in BoundOperands(ret.call.query._criterion) :
          /\ p.key \in DOMAIN ret.call.query._params
          /\ p.callable # Null
          /\ p.callable.returns # ret.call.query._params[p.key]
          /\ p.value # p.callable.returns
          /\ p.value # ret.call.query._params[p.key]
          /\ \E i \in 1..Len(ret.val) :
                ret.val[i][3] = ret.call.query._params[p.key]

====
